---- MODULE Spec2Model ----
(***************************************************************************)
(* A model of vaitekunas/unixsock: the unix-socket server (acceptor,       *)
(* dispatcher and per-connection handler goroutines), the client with its  *)
(* connection reuse, and the communicator envelope both sides exchange.    *)
(*                                                                         *)
(* Time is a discrete clock of TicksPerSec ticks per second.  A goroutine  *)
(* blocked in a Read wakes at the instant data, EOF or its deadline        *)
(* arrives; time passes while clients are idle, while the injected handler *)
(* computes, and while the acceptor and the dispatcher wait to be run.     *)
(***************************************************************************)
EXTENDS Integers, Sequences, FiniteSets, TLC

\* ------------------------------------------------------------------ bounds
NClients == 2          \* concurrent clients
MaxSends == 2          \* Send calls per client
TicksPerSec == 2       \* clock resolution
MaxSecs == 6           \* the clock stops after this many seconds
RunSecs == 2           \* SpecRun: the whole run lasts at most this long

\* ------------------------------------------------------- program constants
DefaultTimeout == 5    \* seconds; newCommunicator and client.New
FreshWindow == 5       \* seconds; reconnect

MaxTime == MaxSecs * TicksPerSec
MaxConns == NClients * MaxSends
Clients == 1..NClients
ConnIds == 1..MaxConns
NoConn == 0            \* a nil net.Conn

\* time.Duration values, in ticks
Secs(n) == n * TicksPerSec
\* Options may set any timeout; the model offers the default and a short one
Timeouts == {Secs(1), Secs(DefaultTimeout)}

\* time.Time.Unix(): whole seconds, sub-second part dropped
Unix(t) == t \div TicksPerSec

\* ------------------------------------------------------------- the envelope
STATUS_OK == "success"
STATUS_FAIL == "failure"

\* A *Response; NilResponse is the nil pointer, EmptyResponse is &Response{}.
\* Error and Payload strings are numbers, 0 the empty string.
NilResponse == [status |-> "nil", error |-> 0, payload |-> 0]
EmptyResponse == [status |-> "", error |-> 0, payload |-> 0]

\* Commands are numbers: client k sends k, which the handler knows and
\* echoes, or NClients + k, which the handler does not know.
Echo(k) == k
Bogus(k) == NClients + k
CmdsOf(k) == {Echo(k), Bogus(k)}
Known == {Echo(k) : k \in Clients}

\* The injected handler (the README's: echo the command, or fail naming it)
handler(cmd) ==
    IF cmd \in Known
    THEN [status |-> STATUS_OK, error |-> 0, payload |-> cmd]
    ELSE [status |-> STATUS_FAIL, error |-> cmd, payload |-> 0]

\* newCommunicator: the exported fields and the timeout (ticks)
newCommunicator(cmd, resp, respond, close) ==
    [cmd |-> cmd, response |-> resp, respond |-> respond, close |-> close,
     timeout |-> Secs(DefaultTimeout)]

NewReceiver == newCommunicator(0, EmptyResponse, TRUE, TRUE)
NewSender(cmd, respond, close) == newCommunicator(cmd, EmptyResponse, respond, close)

\* communicator.Options: respond, close and timeout are overwritten
Options(s, timeout, respond, close) ==
    [s EXCEPT !.respond = respond, !.close = close, !.timeout = timeout]

\* json.Marshal(s): the exported fields only
Marshal(s) ==
    [cmd |-> s.cmd, response |-> s.response, respond |-> s.respond, close |-> s.close]

\* communicator.Receive, lines 165-176: the decoded fields replace s's own
Overwrite(s, f) ==
    [s EXCEPT !.cmd = f.cmd, !.response = f.response,
              !.respond = f.respond, !.close = f.close]

\* communicator.SetResponse
SetResponse(s, resp) == [s EXCEPT !.response = resp]

\* ------------------------------------------------------------------ frames
MaxWire == 9           \* SpecWire: bytes written to the stream, at most

\* A uint32 is its four bytes, most significant first.
\* binary.BigEndian.PutUint32(length, uint32(n)), for the n a message's
\* length can be here
PutUint32(n) ==
    <<n \div 16777216, (n \div 65536) % 256, (n \div 256) % 256, n % 256>>

\* u + 1 in uint32: the carry runs up from the last byte and is dropped at
\* the first, so 0xFFFFFFFF + 1 = 0
Inc32(u) ==
    LET c4 == u[4] = 255
        c3 == c4 /\ u[3] = 255
        c2 == c3 /\ u[2] = 255
    IN  <<IF c2 THEN (u[1] + 1) % 256 ELSE u[1],
          IF c3 THEN (u[2] + 1) % 256 ELSE u[2],
          IF c4 THEN (u[3] + 1) % 256 ELSE u[3],
          (u[4] + 1) % 256>>

\* line 156: msgLen := binary.BigEndian.Uint32(length) + 1
MsgLen(b) == Inc32(b)

Zero32 == <<0, 0, 0, 0>>

\* The number of bytes a Read into a buffer of u bytes takes when avail bytes
\* have arrived: the smaller of the two
ReadCount(u, avail) ==
    IF u[1] = 0 /\ u[2] = 0 /\ u[3] * 256 + u[4] < avail
    THEN u[3] * 256 + u[4] ELSE avail

Colon == 58            \* the byte ":"
Null == 110            \* the first byte of JSON's null

\* The JSON text of an envelope, as bytes: the command, the two flags, then
\* the response, null for a nil *Response and else its three fields.  The
\* texts differ in length.
StatusCode(st) == CASE st = "" -> 0 [] st = STATUS_OK -> 1 [] st = STATUS_FAIL -> 2
StatusOf(b) == CASE b = 0 -> "" [] b = 1 -> STATUS_OK [] b = 2 -> STATUS_FAIL
Bit(v) == IF v THEN 1 ELSE 0
Json(f) ==
    <<f.cmd, Bit(f.respond), Bit(f.close)>> \o
    (IF f.response = NilResponse THEN <<Null>>
     ELSE <<StatusCode(f.response.status), f.response.error, f.response.payload>>)

\* json.Unmarshal succeeds on the text bs
Parses(bs) ==
    /\ Len(bs) \in {4, 6}
    /\ bs[1] \in 0..(2 * NClients) /\ bs[2] \in {0, 1} /\ bs[3] \in {0, 1}
    /\ IF Len(bs) = 4 THEN bs[4] = Null
       ELSE /\ bs[4] \in {0, 1, 2}
            /\ bs[5] \in 0..(2 * NClients) /\ bs[6] \in 0..(2 * NClients)

\* json.Unmarshal(bs, newMsg): the exported fields of newMsg
Unmarshal(bs) ==
    [cmd |-> bs[1], respond |-> bs[2] = 1, close |-> bs[3] = 1,
     response |-> IF Len(bs) = 4 THEN NilResponse
                  ELSE [status |-> StatusOf(bs[4]), error |-> bs[5], payload |-> bs[6]]]

\* communicator.Send, lines 120-126: length, ":", message
Frame(s) == PutUint32(Len(Json(Marshal(s)))) \o <<Colon>> \o Json(Marshal(s))

\* The first n elements of a sequence, and the rest
Take(q, n) == SubSeq(q, 1, n)
Drop(q, n) == SubSeq(q, n + 1, Len(q))
Min(a, b) == IF a < b THEN a ELSE b

\* The envelopes SpecWire sends, and the receivers it reads into: a server's
\* NewReceiver, or a client's sender that now receives
Responses == {NilResponse, EmptyResponse, handler(Echo(1)), handler(Bogus(1))}
Envelopes ==
    {Options(newCommunicator(cmd, resp, TRUE, TRUE), Secs(DefaultTimeout), respond, close) :
        cmd \in CmdsOf(1), resp \in Responses, respond \in BOOLEAN, close \in BOOLEAN}
Receivers == {NewReceiver, NewSender(Echo(1), TRUE, FALSE)}
NilEnvelope == [cmd |-> 0, response |-> NilResponse, respond |-> FALSE, close |-> FALSE]

\* What a peer that is not this library may write: length prefixes of all
\* kinds, the delimiter, message texts good and bad
RawChunks ==
    {<<255, 255, 255, 255>>, <<255, 255, 255, 254>>, PutUint32(0), PutUint32(1),
     PutUint32(4), <<0, 0>>, <<Colon>>, <<1, 1, 1, Null>>, <<9, 9, 9, 9>>}

\* Send's results: the error it returns, by the line that makes it
NoErr == "nil"
ErrConnect == "could not connect"      \* client.go:59
ErrSend == "could not send"            \* client.go:70
ErrReceive == "failed receiving"       \* client.go:76

\* -------------------------------------------------------------------- state
VARIABLES
    now,        \* the clock, in ticks
    srv,        \* server.New: "none" (not called), "running" or "failed"
    listenUnix, \* the listener is bound and open
    cancelled,  \* internalCTX is done
    stopPc,     \* Stop: "idle", "cancelled" (line 93 done), "closed" (line 94 done)
    acc,        \* acceptor: "none", "accept", "accepterr", "select", "done"
    accFd,      \* the connection the acceptor holds (fd)
    disp,       \* dispatcher: "none", "select", "done"
    connChan,   \* the hand-off queue, capacity 1
    backlog,    \* dialled connections Accept has not returned yet
    nextConn,   \* the next connection to be dialled
    c2s, s2c,   \* per connection: frames written and not read, each way
    cliClosed,  \* per connection: the client side is closed
    srvClosed,  \* per connection: the server side is closed
    hpc,        \* handler task: "none","recv","handle","respond","chkclose","done"
    receiver,   \* handler task: its communicator
    hdl,        \* handler task: the deadline Receive set
    response,   \* handler task: what the handler function returned
    hreqs,      \* history: the requests the handler task has read
    nSent,      \* history: the handler task's calls of Send
    hend,       \* history: why the handler task ended
    conn,       \* client: the connection it holds
    conntime,   \* client: when it was dialled
    timeout,    \* client: the configured timeout
    cpc,        \* client: "idle" or "recv" (Send is blocked in Receive)
    msg,        \* client: the communicator of its last Send
    cdl,        \* client: the deadline Receive set
    sends,      \* client: Send calls so far
    sent,       \* history: the last frame Send wrote, its connection and its
                \* place among the frames written to that connection
    heldAge,    \* history: the age in ticks of the connection the client held
                \* when its last Send began, -1 if it held none
    result,     \* client: what the last Send returned
    \* One communicator reading one byte stream, byte by byte (SpecWire)
    pending,    \* bytes written to the connection that have not arrived yet
    readable,   \* bytes that have arrived and have not been read
    writerClosed, \* the writing side has closed the connection
    rpc,        \* Receive: "idle", "length", "content", "ok", "err", "panic"
    msgLen,     \* Receive: the msgLen of line 156
    rcv,        \* the receiving communicator s
    rerr,       \* the line of Receive whose test failed; 147 when the Read failed
                \* because the deadline of line 147 passed
    wrote       \* history: the envelope Send framed (if any), all the bytes
                \* written, and the receiver as it was when Receive was entered

srvVars == <<srv, listenUnix, cancelled, stopPc, acc, accFd, disp, connChan>>
netVars == <<backlog, nextConn, c2s, s2c, cliClosed, srvClosed>>
hVars == <<hpc, receiver, hdl, response, hreqs, nSent, hend>>
cVars == <<conn, conntime, timeout, cpc, msg, cdl, sends, sent, heldAge, result>>
wireVars == <<pending, readable, writerClosed, rpc, msgLen, rcv, rerr, wrote>>
mainVars == <<now, srvVars, netVars, hVars, cVars>>
vars == <<mainVars, wireVars>>

NoResult == [resp |-> NilResponse, err |-> NoErr, cause |-> "none"]
NoneWritten == [env |-> NilEnvelope, bytes |-> <<>>, rcv |-> NewReceiver]
NoneSent == [cmd |-> 0, respond |-> FALSE, close |-> FALSE, conn |-> NoConn, idx |-> 0]

Init ==
    /\ now \in 0..(TicksPerSec - 1)     \* the clock's phase within its second
    /\ srv = "none" /\ listenUnix = FALSE /\ cancelled = FALSE /\ stopPc = "idle"
    /\ acc = "none" /\ accFd = NoConn /\ disp = "none" /\ connChan = <<>>
    /\ backlog = <<>> /\ nextConn = 1
    /\ c2s = [c \in ConnIds |-> <<>>] /\ s2c = [c \in ConnIds |-> <<>>]
    /\ cliClosed = [c \in ConnIds |-> FALSE] /\ srvClosed = [c \in ConnIds |-> FALSE]
    /\ hpc = [c \in ConnIds |-> "none"]
    /\ receiver = [c \in ConnIds |-> NewReceiver]
    /\ hdl = [c \in ConnIds |-> 0]
    /\ response = [c \in ConnIds |-> NilResponse]
    /\ hreqs = [c \in ConnIds |-> <<>>]
    /\ nSent = [c \in ConnIds |-> 0]
    /\ hend = [c \in ConnIds |-> "none"]
    /\ conn = [k \in Clients |-> NoConn]
    /\ conntime = [k \in Clients |-> 0]
    /\ timeout = [k \in Clients |-> Secs(DefaultTimeout)]
    /\ cpc = [k \in Clients |-> "idle"]
    /\ msg = [k \in Clients |-> NewSender(0, TRUE, TRUE)]
    /\ cdl = [k \in Clients |-> 0]
    /\ sends = [k \in Clients |-> 0]
    /\ sent = [k \in Clients |-> NoneSent]
    /\ heldAge = [k \in Clients |-> -1]
    /\ result = [k \in Clients |-> NoResult]
    /\ pending = <<>> /\ readable = <<>> /\ writerClosed = FALSE
    /\ rpc = "idle" /\ msgLen = Zero32 /\ rcv = NewReceiver /\ rerr = 0
    /\ wrote = NoneWritten

\* ------------------------------------------------------------------ server
\* New with the goroutines started before the bind's error is looked at
NewEager(bindable) ==
    /\ srv = "none"
    /\ srv' = IF bindable THEN "running" ELSE "failed"
    /\ listenUnix' = bindable
    /\ acc' = "accept"
    /\ disp' = "select"
    /\ UNCHANGED <<wireVars, now, cancelled, stopPc, accFd, connChan, netVars, hVars, cVars>>

\* server.New: bind the listener; on an error return (nil, error), srv = "failed";
\* otherwise start the acceptor and the dispatcher and return the server
New(bindable) ==
    /\ srv = "none"
    /\ IF bindable
       THEN /\ srv' = "running"
            /\ listenUnix' = TRUE
            /\ acc' = "accept"
            /\ disp' = "select"
       ELSE /\ srv' = "failed"
            /\ UNCHANGED <<listenUnix, acc, disp>>
    /\ UNCHANGED <<wireVars, now, cancelled, stopPc, accFd, connChan, netVars, hVars, cVars>>

\* Stop, line 93: u.cancelCTX()
StopCancel ==
    /\ srv = "running" /\ stopPc = "idle"
    /\ cancelled' = TRUE
    /\ stopPc' = "cancelled"
    /\ UNCHANGED <<wireVars, now, srv, listenUnix, acc, accFd, disp, connChan,
                   netVars, hVars, cVars>>

\* StopClose that also closes every connection a handler task serves
StopCloseAll ==
    /\ stopPc = "cancelled"
    /\ listenUnix' = FALSE
    /\ stopPc' = "closed"
    /\ srvClosed' = [c \in ConnIds |->
                        \/ srvClosed[c]
                        \/ hpc[c] \notin {"none", "done"}
                        \/ \E i \in 1..Len(backlog) : backlog[i] = c]
    /\ backlog' = <<>>
    /\ UNCHANGED <<wireVars, now, srv, cancelled, acc, accFd, disp, connChan,
                   nextConn, c2s, s2c, cliClosed, hVars, cVars>>

\* Stop, line 94: u.listenUnix.Close().  Connections still waiting to be
\* accepted are reset by the kernel.
StopClose ==
    /\ stopPc = "cancelled"
    /\ listenUnix' = FALSE
    /\ stopPc' = "closed"
    /\ srvClosed' = [c \in ConnIds |->
                        srvClosed[c] \/ (\E i \in 1..Len(backlog) : backlog[i] = c)]
    /\ backlog' = <<>>
    /\ UNCHANGED <<wireVars, now, srv, cancelled, acc, accFd, disp, connChan,
                   nextConn, c2s, s2c, cliClosed, hVars, cVars>>

\* acceptor, line 51: listenUnix.Accept() returns a connection, or an error
\* once the listener is closed
Accept ==
    /\ acc = "accept"
    /\ IF listenUnix
       THEN /\ backlog # <<>>
            /\ accFd' = Head(backlog)
            /\ backlog' = Tail(backlog)
            /\ acc' = "select"
       ELSE /\ acc' = "accepterr"
            /\ UNCHANGED <<accFd, backlog>>
    /\ UNCHANGED <<wireVars, now, srv, listenUnix, cancelled, stopPc, disp, connChan,
                   nextConn, c2s, s2c, cliClosed, srvClosed, hVars, cVars>>

\* acceptor, lines 52-54: errUnix != nil, continue
AcceptContinue ==
    /\ acc = "accepterr"
    /\ acc' = "accept"
    /\ UNCHANGED <<wireVars, now, srv, listenUnix, cancelled, stopPc, accFd, disp, connChan,
                   netVars, hVars, cVars>>

\* AcceptorHandOff with a send that does not block: when the queue is full the
\* connection is dropped
AcceptorHandOffDrop ==
    /\ acc = "select"
    /\ connChan' = IF Len(connChan) < 1 THEN Append(connChan, accFd) ELSE connChan
    /\ accFd' = NoConn
    /\ acc' = "accept"
    /\ UNCHANGED <<wireVars, now, srv, listenUnix, cancelled, stopPc, disp,
                   netVars, hVars, cVars>>

\* acceptor, line 56: connChan <- fd
AcceptorHandOff ==
    /\ acc = "select"
    /\ Len(connChan) < 1
    /\ connChan' = Append(connChan, accFd)
    /\ accFd' = NoConn
    /\ acc' = "accept"
    /\ UNCHANGED <<wireVars, now, srv, listenUnix, cancelled, stopPc, disp,
                   netVars, hVars, cVars>>

\* acceptor, lines 57-58: <-internalCTX.Done(), break Loop; fd is dropped
AcceptorDone ==
    /\ acc = "select"
    /\ cancelled
    /\ acc' = "done"
    /\ UNCHANGED <<wireVars, now, srv, listenUnix, cancelled, stopPc, accFd, disp, connChan,
                   netVars, hVars, cVars>>

\* The connection c was returned by Accept and no goroutine can reach it any
\* more: the acceptor left its loop holding it, or it sits in the queue that
\* both goroutines have left
Dropped(c) ==
    \/ acc = "done" /\ accFd = c
    \/ acc = "done" /\ disp = "done" /\ \E i \in 1..Len(connChan) : connChan[i] = c

\* The runtime may collect a dropped connection, and its finalizer then
\* closes it; nothing says when, or that it ever does
Finalize(c) ==
    /\ Dropped(c)
    /\ ~srvClosed[c]
    /\ srvClosed' = [srvClosed EXCEPT ![c] = TRUE]
    /\ UNCHANGED <<wireVars, now, srvVars, backlog, nextConn, c2s, s2c, cliClosed,
                   hVars, cVars>>

\* Receive, line 147: the deadline a Receive entered now sets
Deadline(s) == now + s.timeout

\* Dispatch without the go: the dispatcher runs unixHandler(conn) itself and
\* takes the next connection only when that session is over
DispatchInline ==
    /\ disp = "select"
    /\ connChan # <<>>
    /\ \A d \in ConnIds : hpc[d] \in {"none", "done"}
    /\ LET c == Head(connChan) IN
        /\ hpc' = [hpc EXCEPT ![c] = "recv"]
        /\ receiver' = [receiver EXCEPT ![c] = NewReceiver]
        /\ hdl' = [hdl EXCEPT ![c] = Deadline(NewReceiver)]
    /\ connChan' = Tail(connChan)
    /\ UNCHANGED <<wireVars, now, srv, listenUnix, cancelled, stopPc, acc, accFd, disp,
                   netVars, response, hreqs, nSent, hend, cVars>>

\* dispatcher, lines 69-70: conn := <-connChan; go unixHandler(conn).  The new
\* task runs up to its first Receive.
Dispatch ==
    /\ disp = "select"
    /\ connChan # <<>>
    /\ LET c == Head(connChan) IN
        /\ hpc' = [hpc EXCEPT ![c] = "recv"]
        /\ receiver' = [receiver EXCEPT ![c] = NewReceiver]
        /\ hdl' = [hdl EXCEPT ![c] = Deadline(NewReceiver)]
    /\ connChan' = Tail(connChan)
    /\ UNCHANGED <<wireVars, now, srv, listenUnix, cancelled, stopPc, acc, accFd, disp,
                   netVars, response, hreqs, nSent, hend, cVars>>

\* DispatcherDone with a bare break, which leaves the select and not the loop
DispatcherDoneBareBreak ==
    /\ disp = "select"
    /\ cancelled
    /\ UNCHANGED vars

\* dispatcher, lines 71-72: <-internalCTX.Done(), break Loop
DispatcherDone ==
    /\ disp = "select"
    /\ cancelled
    /\ disp' = "done"
    /\ UNCHANGED <<wireVars, now, srv, listenUnix, cancelled, stopPc, acc, accFd, connChan,
                   netVars, hVars, cVars>>

\* ------------------------------------------------------------ handler task
\* A blocked Read can return: a frame is there, or the peer closed, or the
\* deadline passed
CanRead(stream, peerClosed, deadline) ==
    stream # <<>> \/ peerClosed \/ now >= deadline

\* lines 109-112: receiver.Receive() returns.  On an error the loop breaks and
\* the deferred c.Close() runs.
HandlerReceive(c) ==
    /\ hpc[c] = "recv"
    /\ CanRead(c2s[c], cliClosed[c], hdl[c])
    /\ IF c2s[c] # <<>>
       THEN /\ receiver' = [receiver EXCEPT ![c] = Overwrite(@, Head(c2s[c]))]
            /\ c2s' = [c2s EXCEPT ![c] = Tail(@)]
            /\ hreqs' = [hreqs EXCEPT ![c] = Append(@, Head(c2s[c]))]
            /\ hpc' = [hpc EXCEPT ![c] = "handle"]
            /\ UNCHANGED <<srvClosed, hend>>
       ELSE /\ srvClosed' = [srvClosed EXCEPT ![c] = TRUE]
            /\ hpc' = [hpc EXCEPT ![c] = "done"]
            /\ hend' = [hend EXCEPT ![c] = IF cliClosed[c] THEN "eof" ELSE "timeout"]
            /\ UNCHANGED <<receiver, c2s, hreqs>>
    /\ UNCHANGED <<wireVars, now, srvVars, backlog, nextConn, s2c, cliClosed,
                   hdl, response, nSent, cVars>>

\* HandlerCall with one receiver shared by all handler tasks: the handler
\* function is given the command of whichever request was read last
HandlerCallShared(c) ==
    /\ hpc[c] = "handle"
    /\ \E d \in ConnIds :
        /\ hpc[d] \in {"handle", "respond", "chkclose"}
        /\ response' = [response EXCEPT ![c] = handler(receiver[d].cmd)]
    /\ hpc' = [hpc EXCEPT ![c] = "respond"]
    /\ UNCHANGED <<wireVars, now, srvVars, netVars, receiver, hdl, hreqs, nSent, hend, cVars>>

\* line 115: response := handler(receiver.GetCmd(), receiver.GetArgs())
HandlerCall(c) ==
    /\ hpc[c] = "handle"
    /\ response' = [response EXCEPT ![c] = handler(receiver[c].cmd)]
    /\ hpc' = [hpc EXCEPT ![c] = "respond"]
    /\ UNCHANGED <<wireVars, now, srvVars, netVars, receiver, hdl, hreqs, nSent, hend, cVars>>

\* HandlerRespond with the Send handed to a goroutine of its own ("go
\* receiver.Send()"): the task goes on before anything is sent
HandlerRespondLater(c) ==
    /\ hpc[c] = "respond"
    /\ hpc' = [hpc EXCEPT ![c] = "chkclose"]
    /\ UNCHANGED <<wireVars, now, srvVars, netVars, receiver,
                   hdl, response, hreqs, nSent, hend, cVars>>

\* HandlerRespond without the ShouldRespond test: every request is answered
HandlerRespondAlways(c) ==
    /\ hpc[c] = "respond"
    /\ receiver' = [receiver EXCEPT ![c] = SetResponse(@, response[c])]
    /\ nSent' = [nSent EXCEPT ![c] = @ + 1]
    /\ s2c' = [s2c EXCEPT ![c] =
                  IF cliClosed[c] THEN @
                  ELSE Append(@, Marshal(SetResponse(receiver[c], response[c])))]
    /\ hpc' = [hpc EXCEPT ![c] = "chkclose"]
    /\ UNCHANGED <<wireVars, now, srvVars, backlog, nextConn, c2s, cliClosed, srvClosed,
                   hdl, response, hreqs, hend, cVars>>

\* lines 118-121: if ShouldRespond, SetResponse and Send (its error is dropped;
\* the write fails when the client has closed its side)
HandlerRespond(c) ==
    /\ hpc[c] = "respond"
    /\ IF receiver[c].respond
       THEN /\ receiver' = [receiver EXCEPT ![c] = SetResponse(@, response[c])]
            /\ nSent' = [nSent EXCEPT ![c] = @ + 1]
            /\ s2c' = [s2c EXCEPT ![c] =
                          IF cliClosed[c] THEN @
                          ELSE Append(@, Marshal(SetResponse(receiver[c], response[c])))]
       ELSE UNCHANGED <<receiver, nSent, s2c>>
    /\ hpc' = [hpc EXCEPT ![c] = "chkclose"]
    /\ UNCHANGED <<wireVars, now, srvVars, backlog, nextConn, c2s, cliClosed, srvClosed,
                   hdl, response, hreqs, hend, cVars>>

\* HandlerLoop as the doc comment of newUnixRequestHandler has it ("expects to
\* read only a single message"): the task ends after one message, whatever
\* the message's close flag
HandlerLoopSingle(c) ==
    /\ hpc[c] = "chkclose"
    /\ srvClosed' = [srvClosed EXCEPT ![c] = TRUE]
    /\ hpc' = [hpc EXCEPT ![c] = "done"]
    /\ hend' = [hend EXCEPT ![c] = "close"]
    /\ UNCHANGED <<receiver, hdl>>
    /\ UNCHANGED <<wireVars, now, srvVars, backlog, nextConn, c2s, s2c, cliClosed,
                   response, hreqs, nSent, cVars>>

\* lines 124-128 and 106-110: if ShouldClose, break (and the deferred Close);
\* otherwise a new receiver enters Receive
HandlerLoop(c) ==
    /\ hpc[c] = "chkclose"
    /\ IF receiver[c].close
       THEN /\ srvClosed' = [srvClosed EXCEPT ![c] = TRUE]
            /\ hpc' = [hpc EXCEPT ![c] = "done"]
            /\ hend' = [hend EXCEPT ![c] = "close"]
            /\ UNCHANGED <<receiver, hdl>>
       ELSE /\ hpc' = [hpc EXCEPT ![c] = "recv"]
            /\ receiver' = [receiver EXCEPT ![c] = NewReceiver]
            /\ hdl' = [hdl EXCEPT ![c] = Deadline(NewReceiver)]
            /\ UNCHANGED <<srvClosed, hend>>
    /\ UNCHANGED <<wireVars, now, srvVars, backlog, nextConn, c2s, s2c, cliClosed,
                   response, hreqs, nSent, cVars>>

\* ------------------------------------------------------------------ client
\* Fresh with the age taken from the full clock readings, not from their
\* whole seconds
FreshByAge(k) ==
    conn[k] # NoConn /\ now - conntime[k] < Secs(FreshWindow)

\* reconnect, line 89: a connection is held and is younger than the window,
\* by the whole-second clocks
Fresh(k) ==
    conn[k] # NoConn /\ Unix(now) - Unix(conntime[k]) < FreshWindow

\* net.Dial succeeds while the listener is bound and open
CanDial == listenUnix

\* conn.Write fails on a connection either side has closed
CanWrite(c) == ~cliClosed[c] /\ ~srvClosed[c]

\* The frames ever written to c by its client
Written(c) == Len(hreqs[c]) + Len(c2s[c])

\* unixSockClient.Send up to the point where it returns or blocks in Receive:
\* reconnect, NewSender and Options, msg.Send, and the entry of msg.Receive
Send(k, cmd, respond, close) ==
    /\ cpc[k] = "idle"
    /\ sends[k] < MaxSends
    /\ sends' = [sends EXCEPT ![k] = @ + 1]
    /\ heldAge' = [heldAge EXCEPT ![k] = IF conn[k] = NoConn THEN -1 ELSE now - conntime[k]]
    /\ IF ~Fresh(k) /\ ~CanDial
       THEN /\ result' = [result EXCEPT ![k] =
                   [resp |-> NilResponse, err |-> ErrConnect, cause |-> "dial"]]
            /\ UNCHANGED <<netVars, conn, conntime, cpc, msg, cdl, sent>>
       ELSE LET c == IF Fresh(k) THEN conn[k] ELSE nextConn
                m == Options(NewSender(cmd, respond, close), timeout[k], respond, close)
            IN  /\ conn' = [conn EXCEPT ![k] = c]
                /\ conntime' = [conntime EXCEPT ![k] = IF Fresh(k) THEN @ ELSE now]
                /\ backlog' = IF Fresh(k) THEN backlog ELSE Append(backlog, c)
                /\ nextConn' = IF Fresh(k) THEN nextConn ELSE nextConn + 1
                /\ msg' = [msg EXCEPT ![k] = m]
                /\ IF CanWrite(c)
                   THEN /\ c2s' = [c2s EXCEPT ![c] = Append(@, Marshal(m))]
                        /\ sent' = [sent EXCEPT ![k] =
                               [cmd |-> cmd, respond |-> respond, close |-> close,
                                conn |-> c, idx |-> Written(c) + 1]]
                        /\ IF respond
                           THEN /\ cpc' = [cpc EXCEPT ![k] = "recv"]
                                /\ cdl' = [cdl EXCEPT ![k] = Deadline(m)]
                                /\ UNCHANGED result
                           ELSE /\ result' = [result EXCEPT ![k] = NoResult]
                                /\ UNCHANGED <<cpc, cdl>>
                   ELSE /\ result' = [result EXCEPT ![k] =
                               [resp |-> NilResponse, err |-> ErrSend, cause |-> "write"]]
                        /\ UNCHANGED <<c2s, sent, cpc, cdl>>
                /\ UNCHANGED <<s2c, cliClosed, srvClosed>>
    /\ UNCHANGED <<wireVars, now, srvVars, hVars, timeout>>

\* unixSockClient.Send, lines 75-79: msg.Receive() returns, and Send with it
Receive(k) ==
    /\ cpc[k] = "recv"
    /\ LET c == conn[k] IN
        /\ CanRead(s2c[c], srvClosed[c], cdl[k])
        /\ IF s2c[c] # <<>>
           THEN /\ msg' = [msg EXCEPT ![k] = Overwrite(@, Head(s2c[c]))]
                /\ s2c' = [s2c EXCEPT ![c] = Tail(@)]
                /\ result' = [result EXCEPT ![k] =
                       [resp |-> Overwrite(msg[k], Head(s2c[c])).response,
                        err |-> NoErr, cause |-> "none"]]
           ELSE /\ result' = [result EXCEPT ![k] =
                       [resp |-> NilResponse, err |-> ErrReceive,
                        cause |-> IF srvClosed[c] THEN "eof" ELSE "timeout"]]
                /\ UNCHANGED <<msg, s2c>>
    /\ cpc' = [cpc EXCEPT ![k] = "idle"]
    /\ UNCHANGED <<wireVars, now, srvVars, hVars, backlog, nextConn, c2s, cliClosed, srvClosed,
                   conn, conntime, timeout, cdl, sends, sent, heldAge>>

\* Quit without the nil test: u.conn.Close() on a nil connection panics, the
\* call has no outcome
QuitNoNilTest(k) ==
    /\ cpc[k] = "idle"
    /\ conn[k] # NoConn
    /\ cliClosed' = [cliClosed EXCEPT ![conn[k]] = TRUE]
    /\ UNCHANGED <<wireVars, now, srvVars, hVars, backlog, nextConn, c2s, s2c, srvClosed, cVars>>

\* unixSockClient.Quit: close the held connection, if any; Close's error (the
\* connection is closed already) is dropped, and u.conn stays set
Quit(k) ==
    /\ cpc[k] = "idle"
    /\ IF conn[k] # NoConn
       THEN cliClosed' = [cliClosed EXCEPT ![conn[k]] = TRUE]
       ELSE UNCHANGED cliClosed
    /\ UNCHANGED <<wireVars, now, srvVars, hVars, backlog, nextConn, c2s, s2c, srvClosed, cVars>>

\* unixSockClient.Options: the timeout later Sends use
SetOptions(k, t) ==
    /\ cpc[k] = "idle"
    /\ timeout[k] # t
    /\ timeout' = [timeout EXCEPT ![k] = t]
    /\ UNCHANGED <<wireVars, now, srvVars, netVars, hVars,
                   conn, conntime, cpc, msg, cdl, sends, sent, heldAge, result>>

\* ----------------------------------------------- one Receive, byte by byte
\* communicator.Send on the writing side: the whole frame in one conn.Write
WireSend(e) ==
    /\ wrote.bytes = <<>> /\ ~writerClosed
    /\ pending' = pending \o Frame(e)
    /\ wrote' = [wrote EXCEPT !.env = Marshal(e), !.bytes = Frame(e)]
    /\ UNCHANGED <<mainVars, readable, writerClosed, rpc, msgLen, rcv, rerr>>

\* A peer writes bytes of its own making
WireRaw(bs) ==
    /\ wrote.env = NilEnvelope /\ ~writerClosed
    /\ Len(wrote.bytes) + Len(bs) <= MaxWire
    /\ pending' = pending \o bs
    /\ wrote' = [wrote EXCEPT !.bytes = @ \o bs]
    /\ UNCHANGED <<mainVars, readable, writerClosed, rpc, msgLen, rcv, rerr>>

\* The writing side closes the connection
WireClose ==
    /\ ~writerClosed
    /\ writerClosed' = TRUE
    /\ UNCHANGED <<mainVars, pending, readable, rpc, msgLen, rcv, rerr, wrote>>

\* The stream hands on the next n written bytes: a write larger than the
\* socket's buffer, or one the kernel queues in pieces, arrives in parts
Deliver(n) ==
    /\ n \in 1..Len(pending)
    /\ readable' = readable \o Take(pending, n)
    /\ pending' = Drop(pending, n)
    /\ UNCHANGED <<mainVars, writerClosed, rpc, msgLen, rcv, rerr, wrote>>

\* conn.Read returns: bytes have arrived, or the stream is at its end.  (A
\* Read into a buffer of length zero returns at once.)
Arrived == readable # <<>> \/ (writerClosed /\ pending = <<>>)

\* Receive is entered on the communicator s, line 147
ReceiveEnter(s) ==
    /\ rpc = "idle"
    /\ rpc' = "length"
    /\ rcv' = s
    /\ wrote' = [wrote EXCEPT !.rcv = s]
    /\ UNCHANGED <<mainVars, pending, readable, writerClosed, msgLen, rerr>>

\* lines 150-156: one conn.Read into the 4-byte buffer; n != 4 or an error is
\* an error, else msgLen is set
ReceiveLength ==
    /\ rpc = "length"
    /\ Arrived
    /\ LET n == Min(4, Len(readable)) IN
        /\ readable' = Drop(readable, n)
        /\ IF n = 4
           THEN rpc' = "content" /\ msgLen' = MsgLen(Take(readable, 4)) /\ UNCHANGED rerr
           ELSE rpc' = "err" /\ rerr' = 152 /\ UNCHANGED msgLen
    /\ UNCHANGED <<mainVars, pending, writerClosed, rcv, wrote>>

\* lines 157-178: one conn.Read into a buffer of msgLen bytes; n != msgLen is
\* an error; content[1:] is parsed, and on success overwrites s.  With
\* msgLen = 0 the Read returns 0 bytes at once and content[1:] is out of
\* range: the goroutine panics.
ReceiveContent ==
    /\ rpc = "content"
    /\ msgLen = Zero32 \/ Arrived
    /\ LET n == ReadCount(msgLen, Len(readable))
           content == Take(readable, n)
       IN  /\ readable' = Drop(readable, n)
           /\ IF PutUint32(n) # msgLen
              THEN rpc' = "err" /\ rerr' = 160 /\ UNCHANGED rcv
              ELSE IF msgLen = Zero32
                   THEN rpc' = "panic" /\ UNCHANGED <<rcv, rerr>>
                   ELSE IF Parses(Drop(content, 1))
                        THEN /\ rpc' = "ok"
                             /\ rcv' = Overwrite(rcv, Unmarshal(Drop(content, 1)))
                             /\ UNCHANGED rerr
                        ELSE rpc' = "err" /\ rerr' = 168 /\ UNCHANGED rcv
    /\ UNCHANGED <<mainVars, pending, writerClosed, msgLen, wrote>>

\* The deadline of line 147 passes while a Read waits for bytes
ReceiveTimeout ==
    /\ rpc \in {"length", "content"}
    /\ ~(msgLen = Zero32 /\ rpc = "content")
    /\ readable = <<>> /\ ~writerClosed
    /\ rpc' = "err"
    /\ rerr' = 147
    /\ UNCHANGED <<mainVars, pending, readable, writerClosed, msgLen, rcv, wrote>>

\* -------------------------------------------------------------------- time
\* A task is at a step that takes no time: a Read that can return, the
\* handler task's code between the handler's return and its next Receive, an
\* Accept with a connection waiting, a select with a ready case.  (The
\* acceptor's Accept on a closed listener fails at once, again and again; that
\* loop does not stop the clock.)
Busy ==
    \/ \E c \in ConnIds :
        \/ hpc[c] = "recv" /\ CanRead(c2s[c], cliClosed[c], hdl[c])
        \/ hpc[c] \in {"respond", "chkclose"}
    \/ \E k \in Clients :
        cpc[k] = "recv" /\ CanRead(s2c[conn[k]], srvClosed[conn[k]], cdl[k])
    \/ acc = "accept" /\ listenUnix /\ backlog # <<>>
    \/ acc = "select" /\ (Len(connChan) < 1 \/ cancelled)
    \/ disp = "select" /\ (connChan # <<>> \/ cancelled)

\* Something measures time: the age of a connection a later Send may reuse, a
\* Read's deadline, or a handler call in progress
Timed ==
    \/ \E k \in Clients : (Fresh(k) /\ sends[k] < MaxSends) \/ cpc[k] = "recv"
    \/ \E c \in ConnIds : hpc[c] \in {"recv", "handle"}

Tick ==
    /\ now < MaxTime
    /\ Timed
    /\ ~Busy
    /\ now' = now + 1
    /\ UNCHANGED <<wireVars, srvVars, netVars, hVars, cVars>>

\* ----------------------------------------------------------- specifications
Handlers ==
    \/ \E c \in ConnIds : HandlerReceive(c)
    \/ \E c \in ConnIds : HandlerCall(c)
    \/ \E c \in ConnIds : HandlerRespond(c)
    \/ \E c \in ConnIds : HandlerLoop(c)

\* One client is enough where the claim is about one client's calls
Solo == {1}

\* Spec: a server that is not stopped and one client making any sequence of
\* Send and Options calls, with the clock
Next ==
    \/ \E bindable \in BOOLEAN : New(bindable)
    \/ Accept
    \/ AcceptorHandOff
    \/ Dispatch
    \/ Handlers
    \/ \E k \in Solo : \E cmd \in CmdsOf(k), respond, close \in BOOLEAN :
          Send(k, cmd, respond, close)
    \/ \E k \in Solo : Receive(k)
    \/ \E k \in Solo, t \in Timeouts : SetOptions(k, t)
    \/ Tick

Spec == Init /\ [][Next]_vars

\* SpecStop: a server that Stop may stop at any moment and one client that
\* sends, with the default timeout, and may Quit, with the clock
NextStop ==
    \/ New(TRUE)
    \/ StopCancel
    \/ StopClose
    \/ Accept
    \/ AcceptContinue
    \/ AcceptorHandOff
    \/ AcceptorDone
    \/ Dispatch
    \/ DispatcherDone
    \/ \E c \in ConnIds : Finalize(c)
    \/ Handlers
    \/ \E k \in Solo : \E respond, close \in BOOLEAN : Send(k, Echo(k), respond, close)
    \/ \E k \in Solo : Receive(k)
    \/ \E k \in Solo : Quit(k)
    \/ Tick

SpecStop == Init /\ [][NextStop]_vars

\* The goroutines' steps: every one that can run does run.  Stop, once
\* called, runs to its end; a client blocked in Receive returns when it can.
\* When a client calls Send, and whether Stop is called, is up to the caller.
Fairness ==
    /\ WF_vars(StopClose)
    /\ WF_vars(Accept)
    /\ WF_vars(AcceptContinue)
    /\ WF_vars(AcceptorHandOff \/ AcceptorDone)
    /\ WF_vars(Dispatch \/ DispatcherDone)
    /\ \A c \in ConnIds :
        WF_vars(HandlerReceive(c) \/ HandlerCall(c) \/ HandlerRespond(c) \/ HandlerLoop(c))
    /\ \A k \in Clients : WF_vars(Receive(k))

\* SpecDown: concurrent clients, one Send each, against a server Stop may
\* stop at any moment; no clock, so no Read times out
NextDown ==
    \/ New(TRUE)
    \/ StopCancel
    \/ StopClose
    \/ Accept
    \/ AcceptContinue
    \/ AcceptorHandOff
    \/ AcceptorDone
    \/ Dispatch
    \/ DispatcherDone
    \/ \E c \in ConnIds : Finalize(c)
    \/ Handlers
    \/ \E k \in Clients : \E respond, close \in BOOLEAN :
          sends[k] = 0 /\ Send(k, Echo(k), respond, close)
    \/ \E k \in Clients : Receive(k)

SpecDown == Init /\ [][NextDown]_vars /\ Fairness

\* SpecRun: concurrent clients, each one Send(cmd, args, true, true), against a
\* running server that is not stopped; the run is over within RunSecs, before
\* any timeout
TickRun == now < Secs(RunSecs) /\ Tick

NextRun ==
    \/ New(TRUE)
    \/ Accept
    \/ AcceptorHandOff
    \/ Dispatch
    \/ Handlers
    \/ \E k \in Clients : sends[k] = 0 /\ Send(k, Echo(k), TRUE, TRUE)
    \/ \E k \in Clients : Receive(k)
    \/ TickRun

SpecRun == Init /\ [][NextRun]_vars /\ Fairness

\* SpecSlow: SpecRun with a handler function that never returns from the
\* command of client 1: the call of line 115 for that command is never over
SlowCmd == Echo(1)

HandlersSlow ==
    \/ \E c \in ConnIds : HandlerReceive(c)
    \/ \E c \in ConnIds : receiver[c].cmd # SlowCmd /\ HandlerCall(c)
    \/ \E c \in ConnIds : HandlerRespond(c)
    \/ \E c \in ConnIds : HandlerLoop(c)

NextSlow ==
    \/ New(TRUE)
    \/ Accept
    \/ AcceptorHandOff
    \/ Dispatch
    \/ HandlersSlow
    \/ \E k \in Clients : sends[k] = 0 /\ Send(k, Echo(k), TRUE, TRUE)
    \/ \E k \in Clients : Receive(k)
    \/ TickRun

\* Every goroutine that can run does run, but for the handler call that
\* never returns
FairnessSlow ==
    /\ WF_vars(Accept)
    /\ WF_vars(AcceptorHandOff)
    /\ WF_vars(Dispatch)
    /\ \A c \in ConnIds :
        WF_vars(\/ HandlerReceive(c)
                \/ receiver[c].cmd # SlowCmd /\ HandlerCall(c)
                \/ HandlerRespond(c)
                \/ HandlerLoop(c))
    /\ \A k \in Clients : WF_vars(Receive(k))

SpecSlow == Init /\ [][NextSlow]_vars /\ FairnessSlow

\* SpecWire: one Receive on a stream that carries a frame Send wrote, or
\* bytes of a peer's own making, arriving in any pieces
NextWire ==
    \/ \E e \in Envelopes : WireSend(e)
    \/ \E bs \in RawChunks : WireRaw(bs)
    \/ WireClose
    \/ \E n \in 1..Len(pending) : Deliver(n)
    \/ \E s \in Receivers : ReceiveEnter(s)
    \/ ReceiveLength
    \/ ReceiveContent
    \/ ReceiveTimeout

SpecWire == Init /\ [][NextWire]_vars

\* ------------------------------------------------------------------ claims
\* Every frame the client has written to c, in order: those the handler task
\* has read, then those still unread
Requests(c) == hreqs[c] \o c2s[c]

\* The handler task of c is between reading a request and answering it
Handling(c) == hpc[c] \in {"handle", "respond"}

\* The client's session of claim C1 on c: the first frame asks for a response
\* and not for closing, the second (once written) for a response and closing
Session(c) ==
    LET w == Requests(c) IN
    /\ Len(w) >= 1
    /\ w[1].respond /\ ~w[1].close
    /\ Len(w) >= 2 => w[2].respond /\ w[2].close

Returned(k) == sends[k] > 0 /\ cpc[k] = "idle" /\ sent[k].conn = conn[k] /\ sent[k].respond

\* C2: with concurrent clients, each on its own connection and sending its
\* own command with respond and close set, every response written to a
\* client's connection and every response its Send returns carries that
\* client's command as payload, never another client's
C2_Isolation ==
    \A k \in Clients :
        /\ conn[k] # NoConn =>
              \A i \in 1..Len(s2c[conn[k]]) :
                  s2c[conn[k]][i].response.payload = Echo(k)
        /\ (Returned(k) /\ result[k].err = NoErr) =>
              (sent[k].cmd = Echo(k) /\ result[k].resp.payload = Echo(k))

\* Every client has its own connection and has received its own command
C2_Witness ==
    /\ \A k \in Clients :
          Returned(k) /\ result[k].err = NoErr /\ result[k].resp.payload = Echo(k)
    /\ \A j, k \in Clients : j # k => conn[j] # conn[k]

\* Send returned no error and a response with the status the handler gave
Served(k) ==
    /\ Returned(k)
    /\ result[k].err = NoErr
    /\ result[k].resp # NilResponse
    /\ result[k].resp.status = handler(sent[k].cmd).status
    /\ result[k].resp.status = STATUS_OK

\* C3: while the server runs and is not stopped, a client whose single
\* Send(cmd, args, true, true) reached the server is never given an error,
\* and its Send eventually returns a non-nil response with the handler's
\* status, whatever the other clients do
C3_AllServed ==
    /\ [](\A k \in Clients : (sends[k] = 1 /\ cpc[k] = "idle" /\ conn[k] # NoConn) => Served(k))
    /\ \A k \in Clients : (cpc[k] = "recv") ~> Served(k)

\* All the clients have been served
C3_Witness == \A k \in Clients : Served(k)

C5_Timeout ==
    \A k \in Clients :
        (/\ Returned(k)
         /\ hpc[sent[k].conn] = "respond"
         /\ Len(hreqs[sent[k].conn]) = sent[k].idx
         /\ now > cdl[k]) =>
            /\ result[k].err # NoErr
            /\ result[k].resp = NilResponse

\* C6: when the bind fails New returns an error and no server, and in no
\* later state is there a listener, an acceptor, a dispatcher, a handler task
\* or a connection
C6_BindFailure ==
    srv = "failed" =>
        /\ ~listenUnix
        /\ acc = "none" /\ accFd = NoConn
        /\ disp = "none" /\ connChan = <<>>
        /\ \A c \in ConnIds : hpc[c] = "none"
        /\ backlog = <<>> /\ nextConn = 1

\* The bind failed and a client has since tried to send, in vain
C6_Witness ==
    /\ srv = "failed"
    /\ \E k \in Clients : sends[k] > 0 /\ result[k].err = ErrConnect

\* C7: once Stop has returned, the acceptor eventually leaves its loop
C7_AcceptorExits == (stopPc = "closed") ~> (acc = "done")

\* C8: once Stop has signalled the cancellation, the dispatcher eventually
\* leaves its loop
C8_DispatcherExits == cancelled ~> (disp = "done")

\* The dispatcher has left its loop with a connection still in the queue
C8_Witness == disp = "done" /\ connChan # <<>>

\* The state of the session on c: the handler task and both directions of
\* its connection
SessionState(c) ==
    <<hpc[c], receiver[c], hdl[c], response[c], hreqs[c], nSent[c], hend[c],
      c2s[c], s2c[c], cliClosed[c], srvClosed[c]>>

Spawned(c) == hpc[c] # "none"

\* A step of Stop
StopStep == stopPc' # stopPc

\* The handler task of c ends in this step for a cause of its own: the request
\* it handled asked for closing, or its Receive failed on a closed or silent
\* connection
OwnEnd(c) ==
    \/ hpc[c] = "chkclose" /\ receiver[c].close
    \/ hpc[c] = "recv" /\ c2s[c] = <<>> /\ (cliClosed[c] \/ now >= hdl[c])

\* C9: a step of Stop changes no spawned handler task and neither direction
\* of its connection; a handler task ends, and the server's side of its
\* connection is closed, only in a step of that task and for a cause of its
\* own; and, stopped or not, a handler task waiting in Receive can read a
\* request that has arrived
C9_StopLeavesSessions ==
    [][\A c \in ConnIds :
          /\ (StopStep /\ Spawned(c)) => SessionState(c)' = SessionState(c)
          /\ (Spawned(c) /\ hpc[c] # "done" /\ hpc'[c] = "done") => OwnEnd(c)
          /\ (Spawned(c) /\ srvClosed'[c] # srvClosed[c]) =>
                 (hpc[c] # "done" /\ hpc'[c] = "done")
          /\ (hpc[c] = "recv" /\ c2s[c] # <<>>) => ENABLED HandlerReceive(c)]_vars

\* Stop has returned and a handler task is answering the second request of
\* its session
C9_Witness ==
    /\ stopPc = "closed"
    /\ \E c \in ConnIds :
          hpc[c] = "respond" /\ receiver[c].respond /\ Len(hreqs[c]) = 2 /\ ~cliClosed[c]

\* A step in which client k calls Send
SendStep(k) == sends'[k] = sends[k] + 1

\* Send writes its frame to c, or fails writing it, and writes to no other
\* connection
Uses(k, c) ==
    /\ \/ Len(c2s'[c]) = Len(c2s[c]) + 1
       \/ c2s'[c] = c2s[c] /\ result'[k].err = ErrSend
    /\ \A d \in ConnIds : d # c => c2s'[d] = c2s[d]

\* Send goes on with the connection it holds: no dial, the same timestamp
Reuses(k) ==
    /\ conn'[k] = conn[k] /\ conntime'[k] = conntime[k]
    /\ nextConn' = nextConn /\ backlog' = backlog
    /\ Uses(k, conn[k])

\* Send dials once: it stores and uses the new connection with the current
\* time, or, the dial failing, returns an error and leaves all as it was
Redials(k) ==
    IF CanDial
    THEN /\ nextConn' = nextConn + 1 /\ backlog' = Append(backlog, nextConn)
         /\ conn'[k] = nextConn /\ conntime'[k] = now
         /\ Uses(k, nextConn)
    ELSE /\ result'[k].err = ErrConnect /\ result'[k].resp = NilResponse
         /\ c2s' = c2s /\ conn' = conn /\ conntime' = conntime
         /\ nextConn' = nextConn /\ backlog' = backlog

\* C10 as stated: a Send reuses the held connection when its age is below the
\* window of 5 seconds, and dials otherwise
C10_ReuseByAge ==
    [][\A k \in Clients :
          SendStep(k) =>
              IF conn[k] # NoConn /\ now - conntime[k] < Secs(FreshWindow)
              THEN Reuses(k) ELSE Redials(k)]_vars

\* C10 amended: the age is the difference of the two clock readings' whole
\* seconds; a Send reuses the held connection when that is below 5, and dials
\* otherwise
C10_ReuseByWholeSeconds ==
    [][\A k \in Clients :
          SendStep(k) =>
              IF conn[k] # NoConn /\ Unix(now) - Unix(conntime[k]) < FreshWindow
              THEN Reuses(k) ELSE Redials(k)]_vars

\* A Send has dialled anew although the connection it held was younger than
\* 5 seconds
C10_Witness ==
    \E k \in Clients :
        /\ heldAge[k] >= 0 /\ heldAge[k] < Secs(FreshWindow)
        /\ conntime[k] = now /\ conn[k] = 2 /\ sent[k].conn = 2

\* The frame client k's Send writes in this step, if it writes one
Wrote(k, c) == SendStep(k) /\ Len(c2s'[c]) = Len(c2s[c]) + 1

\* C11: a Send without respond returns (nil, nil) in the step that writes its
\* frame and reads nothing; a Send with respond enters one Receive, which
\* takes at most one frame from the connection and returns the response
\* decoded from it; frames leave the server-to-client stream only that way.
\* The handler task calls Send for a request exactly when the request read
\* carries respond.
C11_RespondFlag ==
    [][/\ \A k \in Clients, c \in ConnIds :
            /\ Wrote(k, c) =>
                  /\ s2c' = s2c
                  /\ LET f == c2s'[c][Len(c2s'[c])] IN
                        IF f.respond
                        THEN cpc'[k] = "recv" /\ result'[k] = result[k]
                        ELSE cpc'[k] = "idle" /\ result'[k] = NoResult
            /\ (conn[k] = c /\ s2c'[c] # s2c[c] /\ Len(s2c'[c]) <= Len(s2c[c])) =>
                  /\ cpc[k] = "recv" /\ cpc'[k] = "idle" /\ msg[k].respond
                  /\ s2c'[c] = Tail(s2c[c])
                  /\ result'[k] = [resp |-> Head(s2c[c]).response,
                                   err |-> NoErr, cause |-> "none"]
       /\ \A c \in ConnIds :
            /\ nSent'[c] # nSent[c] =>
                  /\ hpc[c] = "respond" /\ hreqs[c][Len(hreqs[c])].respond
                  /\ nSent'[c] = nSent[c] + 1
                  /\ s2c'[c] = Append(s2c[c],
                        [cmd |-> hreqs[c][Len(hreqs[c])].cmd, response |-> response[c],
                         respond |-> TRUE, close |-> hreqs[c][Len(hreqs[c])].close])
            /\ (hpc[c] = "respond" /\ hpc'[c] # "respond") =>
                  (nSent'[c] # nSent[c] <=> hreqs[c][Len(hreqs[c])].respond)
            /\ Len(s2c'[c]) > Len(s2c[c]) => nSent'[c] # nSent[c]]_vars

\* A Send without respond has returned (nil, nil) and the handler task has
\* dealt with its request without sending anything
C11_Witness ==
    \E k \in Clients :
        /\ sends[k] = 1 /\ conn[k] # NoConn /\ ~sent[k].respond
        /\ cpc[k] = "idle" /\ result[k] = NoResult
        /\ hpc[conn[k]] = "chkclose" /\ Len(hreqs[conn[k]]) = 1
        /\ nSent[conn[k]] = 0 /\ s2c[conn[k]] = <<>>

\* C12: a client that is not inside Send can always call Quit: with no
\* connection held, with one held, after an earlier Quit and after the server
\* closed the connection.  Quit closes the client's side of the held
\* connection, and the closing of a client's side changes nothing else: no
\* error is recorded and the connection stays stored.
C12_QuitSafe ==
    /\ [](\A k \in Solo :
            cpc[k] = "idle" =>
                /\ ENABLED Quit(k)
                /\ conn[k] # NoConn => ENABLED (Quit(k) /\ cliClosed'[conn[k]]))
    /\ [][cliClosed' # cliClosed =>
            /\ \E k \in Clients :
                  /\ cpc[k] = "idle" /\ conn[k] # NoConn
                  /\ cliClosed' = [cliClosed EXCEPT ![conn[k]] = TRUE]
            /\ UNCHANGED <<wireVars, now, srvVars, hVars, backlog, nextConn, c2s, s2c,
                           srvClosed, cVars>>]_vars

\* The client has quit a connection the server had closed on a close request
C12_Witness ==
    \E k \in Clients :
        /\ conn[k] # NoConn /\ cliClosed[conn[k]] /\ srvClosed[conn[k]]
        /\ hend[conn[k]] = "close" /\ cpc[k] = "idle" /\ result[k].err = NoErr

\* Receive has ended, one way or another
Ended == rpc \in {"ok", "err", "panic"}

\* The stream has ended with fewer than 4 bytes in all
ShortPrefix == writerClosed /\ Len(wrote.bytes) < 4

\* The stream holds the L + 1 bytes its length prefix announces
HasContent ==
    /\ Len(wrote.bytes) >= 4
    /\ LET u == Take(wrote.bytes, 4) IN
          u[1] = 0 /\ u[2] = 0 /\ u[3] * 256 + u[4] + 1 <= Len(wrote.bytes) - 4

\* The stream has ended before the L + 1 bytes
ShortContent == writerClosed /\ Len(wrote.bytes) >= 4 /\ ~HasContent

\* The L bytes after the delimiter are there and do not parse
BadPayload ==
    /\ HasContent
    /\ LET L == wrote.bytes[3] * 256 + wrote.bytes[4] IN
          ~Parses(SubSeq(wrote.bytes, 6, 5 + L))

\* C13: when the stream ends before the 4 bytes of the length, or before the
\* L + 1 bytes that follow, or when the payload does not parse, a Receive
\* that has ended has returned an error and the receiving envelope is as it
\* was when Receive was entered
C13_ShortRead ==
    (Ended /\ (ShortPrefix \/ ShortContent \/ BadPayload)) =>
        (rpc = "err" /\ rcv = wrote.rcv)

\* C14: when the stream carries the frame Send wrote for an envelope e, a
\* Receive that has ended, its deadline not having passed, has returned no
\* error and the receiving envelope has e's command, response, respond and
\* close, in whatever pieces the frame's bytes arrived
C14_RoundTrip ==
    (wrote.env # NilEnvelope /\ Ended /\ rerr # 147) =>
        (rpc = "ok" /\ Marshal(rcv) = wrote.env)

\* C17: whatever the length prefix and the bytes after it, Receive ends by
\* returning an envelope or by returning an error; it never panics
C17_ReceiveTotal == rpc # "panic"

\* The requests of q that ask for a response
Responding(q) == Cardinality({i \in 1..Len(q) : q[i].respond})

\* The request the handler task of c read last
LastRead(c) == hreqs[c][Len(hreqs[c])]

\* C15: a handler task reads a request only from Receive, with the responses
\* to all the requests it read before already sent; the request read, it
\* calls the handler function once, on that request's command; it sends
\* only that call's response, once, before it goes on to the closing test
\* and the next Receive
C15_NoPipelining ==
    [][\A c \in ConnIds :
          /\ hreqs'[c] # hreqs[c] =>
                /\ hpc[c] = "recv" /\ hpc'[c] = "handle"
                /\ hreqs'[c] = Append(hreqs[c], Head(c2s[c]))
                /\ nSent[c] = Responding(hreqs[c])
          /\ (hpc'[c] = "handle" /\ hpc[c] # "handle") => hreqs'[c] # hreqs[c]
          /\ (hpc[c] = "handle" /\ hpc'[c] # "handle") =>
                /\ hpc'[c] = "respond"
                /\ response'[c] = handler(LastRead(c).cmd)
          /\ response'[c] # response[c] => hpc[c] = "handle"
          /\ nSent'[c] # nSent[c] =>
                /\ hpc[c] = "respond" /\ nSent'[c] = nSent[c] + 1
                /\ response[c] = handler(LastRead(c).cmd)
                /\ s2c'[c] = Append(s2c[c],
                      [cmd |-> LastRead(c).cmd, response |-> response[c],
                       respond |-> LastRead(c).respond, close |-> LastRead(c).close])
          /\ (hpc[c] = "chkclose" /\ hpc'[c] # "chkclose") =>
                nSent[c] = Responding(hreqs[c])]_vars

\* A handler task has read two requests on its connection, both asking for a
\* response, and has sent the second response
C15_Witness ==
    \E c \in ConnIds :
        /\ hpc[c] = "chkclose" /\ Len(hreqs[c]) = 2
        /\ Responding(hreqs[c]) = 2 /\ nSent[c] = 2

\* The handler call for the request on c never returns
Blocked(c) == hpc[c] = "handle" /\ receiver[c].cmd = SlowCmd

\* C16: with the handler call of one connection blocked for ever, a client
\* that has sent its request on another connection is never given an error
\* and eventually gets the handler's response: the acceptor, the dispatcher
\* and the other handler tasks go on
C16_SlowHandlerAlone ==
    /\ [](\A k \in Clients :
            (sent[k].cmd # SlowCmd /\ sends[k] = 1 /\ cpc[k] = "idle" /\ conn[k] # NoConn)
                => Served(k))
    /\ \A k \in Clients :
          (cpc[k] = "recv" /\ sent[k].cmd # SlowCmd) ~> Served(k)

\* A client has been served on a connection dialled while the handler call
\* of another connection was, and still is, blocked
C16_Witness ==
    \E j, k \in Clients :
        /\ conn[j] # NoConn /\ Blocked(conn[j]) /\ cpc[j] = "recv"
        /\ conn[k] > conn[j] /\ Served(k) /\ conntime[k] > conntime[j]

\* C18: a response a Send returns is the server's response to the request
\* that Send wrote: the handler's result for its command, also when an
\* earlier Send on the same connection ended by a read timeout
C18_ResponseMatches ==
    \A k \in Clients :
        (Returned(k) /\ result[k].err = NoErr) =>
            result[k].resp = handler(sent[k].cmd)

\* C19: against a running server no Send fails for having used a connection
\* that is closed already: neither its write fails on the held connection nor
\* its read finds the connection closed by the server
C19_NoClosedReuse ==
    \A k \in Clients :
        (srv = "running" /\ sends[k] > 0 /\ cpc[k] = "idle") =>
            result[k].cause \notin {"write", "eof"}

\* Accept has returned c and no handler task has been started for it
Waiting(c) ==
    /\ hpc[c] = "none"
    /\ accFd = c \/ \E i \in 1..Len(connChan) : connChan[i] = c

\* C20: every connection Accept has returned is eventually served by a
\* handler task or closed by the server, also when Stop comes while the
\* acceptor holds it or while it waits in the queue
C20_NoneLost ==
    \A c \in ConnIds : Waiting(c) ~> (hpc[c] # "none" \/ srvClosed[c])

====
